---------------------------- MODULE Spec2Model ----------------------------
(* A model of the FARM-stack todo service: backend/src/server.py (the      *)
(* lifespan of the application and its routes over the todo lists) and the *)
(* data-access layer ToDoDAL with the one collection of todo-list          *)
(* documents it owns.  server.py is translated from its source.  ToDoDAL   *)
(* (module dal, imported by server.py) is written from the specification,  *)
(* section 4.2; its operations carry the prefix dal_.  GET /api/dummy      *)
(* reads neither the collection nor app.todo_dal and is left out.          *)
EXTENDS Integers, Sequences, FiniteSets, TLC

(***************************************************************************)
(* Bounds                                                                  *)
(***************************************************************************)
\* identifiers the store generates in one run (list ids and item ids)
MaxIds == 3
\* requests in flight at once in the concurrent specification
MaxReq == 3

(***************************************************************************)
(* HTTP status codes                                                       *)
(***************************************************************************)
HTTP_200_OK == 200
HTTP_201_CREATED == 201
HTTP_422_UNPROCESSABLE == 422
HTTP_500_SERVER_ERROR == 500

(***************************************************************************)
(* Identifiers.  The store's native identifier is modelled by a number,    *)
(* its API form by the 24-character hex string; str() and ObjectId() are   *)
(* the two conversions.                                                    *)
(***************************************************************************)
InvalidId == -1
NativeIds == 0 .. 9

\* the 24-hex-character form of every native id
HexTable == [n \in NativeIds |-> "00000000000000000000000" \o ToString(n)]

\* str(ObjectId): the 24-hex-character form of a native id
Hex(n) == HexTable[n]

\* the native id of every 24-hex string
ParseTable == [s \in {HexTable[n] : n \in NativeIds} |->
                  CHOOSE n \in NativeIds : HexTable[n] = s]

\* ObjectId(str): the native id of a 24-hex string, InvalidId for any other
ObjectId(s) == IF s \in DOMAIN ParseTable THEN ParseTable[s] ELSE InvalidId

\* a path segment or body string that is no identifier
Malformed == "not-an-object-id"

\* a well-formed identifier the store never generates
Unassigned == Hex(0)

\* the well-formed identifier strings a client may send
HexStrings == {Hex(n) : n \in 1 .. MaxIds}

\* the list identifier strings a client may send
IdStrings == HexStrings \cup {Malformed}

Labels == {"Milk", "Eggs"}
Names == {"", "Groceries"}

(***************************************************************************)
(* State                                                                   *)
(***************************************************************************)
VARIABLES
    phase,      \* where lifespan() stands: created, pinging, serving, failed, stopped
    client,     \* the AsyncIOMotorClient: none, open, closed
    todo_dal,   \* app.todo_dal: unset or installed
    pings,      \* how many times the ping command has been issued
    pong,       \* the reply to the ping, or NoPong
    store,      \* the collection: native list id -> document
    nextId,     \* the next identifier the store generates
    last,       \* the last request served and its response
    prev,       \* the collection as it was before the last request
    deleted,    \* history: the lists a delete removed, each with its item ids
    inflight,   \* concurrent specification: the requests in flight
    applied     \* concurrent specification: the updates applied, in order

vars == <<phase, client, todo_dal, pings, pong, store, nextId, last, prev,
          deleted, inflight, applied>>

lifeVars == <<phase, client, todo_dal, pings, pong>>

EmptyStore == [n \in {} |-> [name |-> "", items |-> <<>>]]

NoPong == [ok |-> -10]
NoRequest == [op |-> "none", list_id |-> "", body |-> [none |-> ""],
              dal |-> [kind |-> "not_called"],
              resp |-> [status |-> 0, body |-> [kind |-> "none"]]]


(***************************************************************************)
(* The data-access layer ToDoDAL (specification, section 4.2).  Every      *)
(* operation is one operation of the store on one document: it takes the   *)
(* collection and yields the collection after it and its result.           *)
(***************************************************************************)
NotFound == [kind |-> "not_found"]

\* the projection of a stored item to its API form
ToDoListItem_from_doc(item) ==
    [id |-> Hex(item.id), label |-> item.label, checked_state |-> item.checked]

\* the projection of a stored document to the full ToDoList
ToDoList_from_doc(n, doc) ==
    [kind |-> "ToDoList", id |-> Hex(n), name |-> doc.name,
     items |-> [i \in 1 .. Len(doc.items) |-> ToDoListItem_from_doc(doc.items[i])]]

\* a scan that counts every item, whatever its state
CountChecked_every_item(items) == Len(items)

\* the number of checked items, by scanning the embedded items
RECURSIVE CountChecked(_)
CountChecked(items) ==
    IF items = <<>> THEN 0
    ELSE (IF Head(items).checked THEN 1 ELSE 0) + CountChecked(Tail(items))

\* the projection of a stored document to its summary
ListSummary_from_doc(n, doc) ==
    [id |-> Hex(n), name |-> doc.name, item_count |-> Len(doc.items),
     checked_count |-> CountChecked(doc.items)]

\* the store's cursor: the documents of ids in natural (insertion) order
RECURSIVE Cursor(_, _)
Cursor(st, ids) ==
    IF ids = {} THEN <<>>
    ELSE LET n == CHOOSE m \in ids : \A k \in ids : m <= k
         IN  <<ListSummary_from_doc(n, st[n])>> \o Cursor(st, ids \ {n})

\* the document a list id string addresses, InvalidId when there is none
FindOne(st, id) ==
    IF ObjectId(id) \in DOMAIN st THEN ObjectId(id) ELSE InvalidId

\* the position of the first item of doc that item_id addresses, 0 for none
ItemIndex(doc, item_id) ==
    IF ObjectId(item_id) # InvalidId
       /\ \E i \in 1 .. Len(doc.items) : doc.items[i].id = ObjectId(item_id)
    THEN CHOOSE i \in 1 .. Len(doc.items) :
            /\ doc.items[i].id = ObjectId(item_id)
            /\ \A j \in 1 .. Len(doc.items) :
                  doc.items[j].id = ObjectId(item_id) => i <= j
    ELSE 0

dal_list_todo_lists(st) ==
    [store |-> st, result |-> [kind |-> "summaries", value |-> Cursor(st, DOMAIN st)]]

dal_create_todo_list(st, fresh, name) ==
    [store |-> st @@ (fresh :> [name |-> name, items |-> <<>>]),
     result |-> [kind |-> "id", value |-> Hex(fresh)]]

dal_get_todo_list(st, id) ==
    LET n == FindOne(st, id)
    IN  [store |-> st,
         result |-> IF n = InvalidId THEN NotFound ELSE ToDoList_from_doc(n, st[n])]

dal_delete_todo_list(st, id) ==
    LET n == FindOne(st, id)
    IN  IF n = InvalidId
        THEN [store |-> st, result |-> [kind |-> "bool", value |-> FALSE]]
        ELSE [store |-> [k \in DOMAIN st \ {n} |-> st[k]],
              result |-> [kind |-> "bool", value |-> TRUE]]

dal_create_item(st, fresh, id, label) ==
    LET n == FindOne(st, id)
    IN  IF n = InvalidId
        THEN [store |-> st, result |-> NotFound]
        ELSE LET item == [id |-> fresh, label |-> label, checked |-> FALSE]
                 doc == [st[n] EXCEPT !.items = Append(@, item)]
             IN  [store |-> [st EXCEPT ![n] = doc],
                  result |-> ToDoList_from_doc(n, doc)]

\* a filter on the item alone: the owner of item_id among all documents
AnyOwner(st, item_id) ==
    IF \E n \in DOMAIN st : ItemIndex(st[n], item_id) # 0
    THEN CHOOSE n \in DOMAIN st : ItemIndex(st[n], item_id) # 0
    ELSE InvalidId

\* a set_checked_state whose filter names the item but not the list
dal_set_checked_state_any_list(st, id, item_id, checked_state) ==
    LET n == AnyOwner(st, item_id)
    IN  IF n = InvalidId
        THEN [store |-> st, result |-> NotFound]
        ELSE LET i == ItemIndex(st[n], item_id)
                 doc == [st[n] EXCEPT !.items[i].checked = checked_state]
             IN  [store |-> [st EXCEPT ![n] = doc],
                  result |-> ToDoList_from_doc(n, doc)]

dal_set_checked_state(st, id, item_id, checked_state) ==
    LET n == FindOne(st, id)
    IN  IF n = InvalidId \/ ItemIndex(st[n], item_id) = 0
        THEN [store |-> st, result |-> NotFound]
        ELSE LET i == ItemIndex(st[n], item_id)
                 doc == [st[n] EXCEPT !.items[i].checked = checked_state]
             IN  [store |-> [st EXCEPT ![n] = doc],
                  result |-> ToDoList_from_doc(n, doc)]


(***************************************************************************)
(* The framework around a route: request-body validation against the       *)
(* route's model, and serialisation of what the handler returns against    *)
(* the route's response_model.                                             *)
(***************************************************************************)
\* class NewList(BaseModel): name: str
NewList(body) == "name" \in DOMAIN body

\* class NewItem(BaseModel): label: str
NewItem(body) == "label" \in DOMAIN body

\* class ToDoItemUpdate(BaseModel): item_id: str, checked_state: bool
ToDoItemUpdate(body) == {"item_id", "checked_state"} \subseteq DOMAIN body

\* a request whose body fails its model never reaches the handler
Unprocessable(st) ==
    [store |-> st, dal |-> [kind |-> "not_called"],
     resp |-> [status |-> HTTP_422_UNPROCESSABLE,
               body |-> [kind |-> "validation_error"]]]

\* what the handler returned, serialised under the route's response_model
\* and status_code.  The routes catch nothing and register no exception
\* handler: a failure value or exception of the data-access layer is not
\* an instance of the response model and leaves the framework as a server
\* error.
Respond(result, response_model, status_code) ==
    IF result.kind = response_model
    THEN [status |-> status_code, body |-> result]
    ELSE [status |-> HTTP_500_SERVER_ERROR, body |-> [kind |-> "server_error"]]

(***************************************************************************)
(* The routes of server.py.  Each yields the collection after the request, *)
(* what the data-access layer answered, and the HTTP response.             *)
(***************************************************************************)
get_all_lists(st) ==
    LET r == dal_list_todo_lists(st)
    IN  [store |-> r.store, dal |-> r.result,
         resp |-> Respond(r.result, "summaries", HTTP_200_OK)]

create_todo_list(st, fresh, new_list) ==
    IF ~NewList(new_list) THEN Unprocessable(st)
    ELSE LET r == dal_create_todo_list(st, fresh, new_list.name)
         IN  [store |-> r.store, dal |-> r.result,
              resp |-> Respond([kind |-> "NewListResponse", id |-> r.result.value,
                                name |-> new_list.name],
                               "NewListResponse", HTTP_201_CREATED)]

get_list(st, list_id) ==
    LET r == dal_get_todo_list(st, list_id)
    IN  [store |-> r.store, dal |-> r.result,
         resp |-> Respond(r.result, "ToDoList", HTTP_200_OK)]

\* a delete route that calls the fetch of the data-access layer
delete_list_calls_get(st, list_id) ==
    LET r == dal_get_todo_list(st, list_id)
    IN  [store |-> r.store, dal |-> r.result,
         resp |-> Respond(r.result, "bool", HTTP_200_OK)]

delete_list(st, list_id) ==
    LET r == dal_delete_todo_list(st, list_id)
    IN  [store |-> r.store, dal |-> r.result,
         resp |-> Respond(r.result, "bool", HTTP_200_OK)]

\* an add-item route that passes its two strings in the wrong order
create_item_swapped(st, fresh, list_id, new_item) ==
    IF ~NewItem(new_item) THEN Unprocessable(st)
    ELSE LET r == dal_create_item(st, fresh, new_item.label, list_id)
         IN  [store |-> r.store, dal |-> r.result,
              resp |-> Respond(r.result, "ToDoList", HTTP_201_CREATED)]

create_item(st, fresh, list_id, new_item) ==
    IF ~NewItem(new_item) THEN Unprocessable(st)
    ELSE LET r == dal_create_item(st, fresh, list_id, new_item.label)
         IN  [store |-> r.store, dal |-> r.result,
              resp |-> Respond(r.result, "ToDoList", HTTP_201_CREATED)]

\* a checked-state route that passes its two identifiers in the wrong order
set_checked_state_swapped(st, list_id, update) ==
    IF ~ToDoItemUpdate(update) THEN Unprocessable(st)
    ELSE LET r == dal_set_checked_state(st, update.item_id, list_id,
                                        update.checked_state)
         IN  [store |-> r.store, dal |-> r.result,
              resp |-> Respond(r.result, "ToDoList", HTTP_200_OK)]

set_checked_state(st, list_id, update) ==
    IF ~ToDoItemUpdate(update) THEN Unprocessable(st)
    ELSE LET r == dal_set_checked_state(st, list_id, update.item_id,
                                        update.checked_state)
         IN  [store |-> r.store, dal |-> r.result,
              resp |-> Respond(r.result, "ToDoList", HTTP_200_OK)]

(***************************************************************************)
(* lifespan(app): startup, the serving phase, shutdown.                    *)
(***************************************************************************)
\* the ok field of a ping reply is a double, held here in tenths
PongOkValues == {0, 10}

\* int(x) of a non-negative double held in tenths
int(x) == x \div 10

\* a startup that does not look at the reply
PongNotOk_unchecked(p) == FALSE

\* if int(pong["ok"]) != 1: raise
PongNotOk(p) == int(p.ok) # 1

Init ==
    /\ phase = "created"
    /\ client = "none"
    /\ todo_dal = "unset"
    /\ pings = 0
    /\ pong = NoPong
    /\ store = EmptyStore
    /\ nextId = 1
    /\ last = NoRequest
    /\ prev = EmptyStore
    /\ deleted = {}
    /\ inflight = <<>>
    /\ applied = <<>>

dataVars == <<store, nextId, last, prev, deleted, inflight, applied>>

\* client = AsyncIOMotorClient(...); the ping command is sent
Startup ==
    /\ phase = "created"
    /\ client' = "open"
    /\ pings' = pings + 1
    /\ phase' = "pinging"
    /\ UNCHANGED <<todo_dal, pong>>
    /\ UNCHANGED dataVars

\* the ping is answered: startup raises, or installs app.todo_dal and yields
PingReturns ==
    /\ phase = "pinging"
    /\ \E ok \in PongOkValues :
          /\ pong' = [ok |-> ok]
          /\ IF PongNotOk([ok |-> ok])
             THEN phase' = "failed" /\ todo_dal' = todo_dal
             ELSE phase' = "serving" /\ todo_dal' = "installed"
    /\ UNCHANGED <<client, pings>>
    /\ UNCHANGED dataVars

\* the ping command itself raises: the store cannot be reached
PingRaises ==
    /\ phase = "pinging"
    /\ phase' = "failed"
    /\ UNCHANGED <<client, todo_dal, pings, pong>>
    /\ UNCHANGED dataVars

\* after the yield: client.close()
Shutdown ==
    /\ phase = "serving"
    /\ client' = "closed"
    /\ phase' = "stopped"
    /\ UNCHANGED <<todo_dal, pings, pong>>
    /\ UNCHANGED dataVars

(***************************************************************************)
(* One request served by a route.  Requests are served between the yield   *)
(* of lifespan and its shutdown.                                           *)
(***************************************************************************)
Answer(op, list_id, body, r) ==
    /\ phase = "serving"
    /\ store' = r.store
    /\ prev' = store
    /\ last' = [op |-> op, list_id |-> list_id, body |-> body,
                dal |-> r.dal, resp |-> r.resp]
    /\ UNCHANGED lifeVars

\* a request served with no other request in flight
Serve(op, list_id, body, r) ==
    /\ Answer(op, list_id, body, r)
    /\ UNCHANGED <<inflight, applied>>

NewListBodies == {[name |-> n] : n \in Names} \cup {[other |-> ""]}
NewItemBodies == {[label |-> l] : l \in Labels}
UpdateBodies ==
    {[item_id |-> i, checked_state |-> c] : i \in HexStrings, c \in BOOLEAN}

\* the add-item requests: every list id with every body that has its label,
\* and one body that lacks it
CreateItemRequests ==
    (IdStrings \X NewItemBodies) \cup {<<Hex(1), [other |-> ""]>>}

\* the checked-state requests: every list id with every complete body, and
\* one body that lacks its checked_state
SetCheckedStateRequests ==
    (IdStrings \X UpdateBodies) \cup {<<Hex(1), [item_id |-> Hex(2)]>>}

GetAllLists ==
    /\ Serve("get_all_lists", "", [none |-> ""], get_all_lists(store))
    /\ UNCHANGED <<nextId, deleted>>

CreateTodoList ==
    \E body \in NewListBodies :
        LET r == create_todo_list(store, nextId, body)
        IN  /\ r.store # store => nextId <= MaxIds
            /\ Serve("create_todo_list", "", body, r)
            /\ nextId' = IF r.store # store THEN nextId + 1 ELSE nextId
            /\ UNCHANGED deleted

GetList ==
    \E list_id \in IdStrings :
        /\ Serve("get_list", list_id, [none |-> ""], get_list(store, list_id))
        /\ UNCHANGED <<nextId, deleted>>

DeleteList ==
    \E list_id \in IdStrings :
        LET r == delete_list(store, list_id)
            n == FindOne(store, list_id)
        IN  /\ Serve("delete_list", list_id, [none |-> ""], r)
            /\ deleted' =
                 IF r.dal = [kind |-> "bool", value |-> TRUE]
                 THEN deleted \cup
                      {[id |-> n,
                        items |-> {store[n].items[i].id :
                                      i \in 1 .. Len(store[n].items)}]}
                 ELSE deleted
            /\ UNCHANGED nextId

CreateItem ==
    \E req \in CreateItemRequests :
        LET r == create_item(store, nextId, req[1], req[2])
        IN  /\ r.store # store => nextId <= MaxIds
            /\ Serve("create_item", req[1], req[2], r)
            /\ nextId' = IF r.store # store THEN nextId + 1 ELSE nextId
            /\ UNCHANGED deleted

SetCheckedState ==
    \E req \in SetCheckedStateRequests :
        /\ Serve("set_checked_state", req[1], req[2],
                 set_checked_state(store, req[1], req[2]))
        /\ UNCHANGED <<nextId, deleted>>

Next ==
    \/ Startup
    \/ PingReturns
    \/ PingRaises
    \/ Shutdown
    \/ GetAllLists
    \/ CreateTodoList
    \/ GetList
    \/ DeleteList
    \/ CreateItem
    \/ SetCheckedState

Spec == Init /\ [][Next]_vars


(***************************************************************************)
(* Properties of the sequential specification Spec.                        *)
(***************************************************************************)
\* what get_todo_list shows of the list id in collection st
Shown(st, id) == dal_get_todo_list(st, id).result

\* the API ids of the items of every list of st other than list n
ForeignItemIds(st, n) ==
    UNION {{Hex(st[m].items[i].id) : i \in 1 .. Len(st[m].items)} :
              m \in DOMAIN st \ {n}}

DeletedIds == {d.id : d \in deleted}

False200 == [status |-> HTTP_200_OK, body |-> [kind |-> "bool", value |-> FALSE]]
True200 == [status |-> HTTP_200_OK, body |-> [kind |-> "bool", value |-> TRUE]]

\* the last request reached the data-access layer
Reached == last.dal.kind # "not_called"

\* C2: set_checked_state(list_id, item_id, state) with an item_id that
\* belongs to an item of another list than list_id signals not-found and
\* leaves every stored list, the owner of item_id included, as it was.
C2_ForeignItemNotFound ==
    (/\ last.op = "set_checked_state"
     /\ Reached
     /\ last.body.item_id \in ForeignItemIds(prev, ObjectId(last.list_id)))
    => (last.dal = NotFound /\ store = prev)

\* C2 witness: an existing list was addressed with an unchecked item of
\* another list and the state true.
C2_Witness ==
    /\ last.op = "set_checked_state"
    /\ Reached
    /\ FindOne(prev, last.list_id) # InvalidId
    /\ last.body.item_id \in ForeignItemIds(prev, ObjectId(last.list_id))
    /\ last.body.checked_state
    /\ last.dal = NotFound

\* C3: once delete_todo_list(L) has returned true for an existing list L,
\* get_todo_list(L) signals not-found, no item of L is shown by a remaining
\* list, and a further delete of L answers false, not an error.
C3_DeletedStaysDeleted ==
    /\ \A d \in deleted :
          /\ get_list(store, Hex(d.id)).dal = NotFound
          /\ delete_list(store, Hex(d.id)).resp = False200
          /\ \A n \in DOMAIN store :
                \A i \in 1 .. Len(Shown(store, Hex(n)).items) :
                    ObjectId(Shown(store, Hex(n)).items[i].id) \notin d.items
    /\ (last.op = "delete_list" /\ FindOne(prev, last.list_id) # InvalidId)
          => (last.resp = True200 /\ ObjectId(last.list_id) \in DeletedIds)
    /\ (last.op = "delete_list" /\ FindOne(prev, last.list_id) = InvalidId)
          => (last.resp = False200 /\ store = prev)
    /\ (last.op = "get_list" /\ ObjectId(last.list_id) \in DeletedIds)
          => last.dal = NotFound

\* C3 witness: a list with an item was deleted, another list remains, and
\* the delete was asked a second time.
C3_Witness ==
    /\ last.op = "delete_list"
    /\ last.resp = False200
    /\ DOMAIN store # {}
    /\ \E d \in deleted : d.id = ObjectId(last.list_id) /\ d.items # {}

\* the items shown before are the first items shown after, unchanged
KeepsItems(before, after) ==
    /\ Len(after.items) = Len(before.items) + 1
    /\ \A i \in 1 .. Len(before.items) : after.items[i] = before.items[i]

\* the last item shown has label s and is unchecked
LastItemIs(after, s) ==
    /\ after.items[Len(after.items)].label = s
    /\ after.items[Len(after.items)].checked_state = FALSE

\* C4: create_item(L, s) on an existing list L, then get_todo_list(L): one
\* more item than before, the new one last with label s and checked_state
\* false, the former items with their ids, labels, states and order.
C4_CreateItemAppends ==
    /\ (/\ last.op = "create_item"
        /\ Reached
        /\ FindOne(prev, last.list_id) # InvalidId)
       => /\ KeepsItems(Shown(prev, last.list_id), Shown(store, last.list_id))
          /\ LastItemIs(Shown(store, last.list_id), last.body.label)
          /\ last.resp = [status |-> HTTP_201_CREATED,
                          body |-> Shown(store, last.list_id)]
          /\ \A n \in DOMAIN prev \ {ObjectId(last.list_id)} : store[n] = prev[n]
    /\ \A n \in DOMAIN store : \A s \in Labels :
          LET after == create_item(store, nextId, Hex(n), [label |-> s]).store
          IN  /\ KeepsItems(Shown(store, Hex(n)), Shown(after, Hex(n)))
              /\ LastItemIs(Shown(after, Hex(n)), s)

\* C4 witness: an item was added to a list that already had one.
C4_Witness ==
    /\ last.op = "create_item"
    /\ Reached
    /\ FindOne(prev, last.list_id) # InvalidId
    /\ Len(Shown(prev, last.list_id).items) >= 1
    /\ Len(Shown(store, last.list_id).items) >= 2

\* the items shown of list id in st, with item number i given state c
WithState(st, id, i, c) ==
    [Shown(st, id).items EXCEPT ![i].checked_state = c]

\* C5: set_checked_state(L, I, true) makes get_todo_list(L) show I checked,
\* a following set_checked_state(L, I, false) shows it unchecked again, and
\* the same call repeated leaves the list as the first call left it.
C5_SetCheckedState ==
    /\ (/\ last.op = "set_checked_state"
        /\ Reached
        /\ FindOne(prev, last.list_id) # InvalidId
        /\ ItemIndex(prev[ObjectId(last.list_id)], last.body.item_id) # 0)
       => LET i == ItemIndex(prev[ObjectId(last.list_id)], last.body.item_id)
          IN  /\ Shown(store, last.list_id).items
                    = WithState(prev, last.list_id, i, last.body.checked_state)
              /\ last.resp = [status |-> HTTP_200_OK,
                              body |-> Shown(store, last.list_id)]
              /\ set_checked_state(store, last.list_id, last.body).store = store
              /\ set_checked_state(store, last.list_id, last.body).resp = last.resp
    /\ \A n \in DOMAIN store : \A i \in 1 .. Len(store[n].items) :
          LET I == Hex(store[n].items[i].id)
              s1 == set_checked_state(store, Hex(n),
                        [item_id |-> I, checked_state |-> TRUE]).store
              s2 == set_checked_state(s1, Hex(n),
                        [item_id |-> I, checked_state |-> FALSE]).store
          IN  /\ Shown(s1, Hex(n)).items = WithState(store, Hex(n), i, TRUE)
              /\ Shown(s2, Hex(n)).items = WithState(store, Hex(n), i, FALSE)

\* C5 witness: the same set_checked_state(L, I, true) was served on an item
\* that was already checked, in a list of two items.
C5_Witness ==
    /\ last.op = "set_checked_state"
    /\ Reached
    /\ FindOne(prev, last.list_id) # InvalidId
    /\ ItemIndex(prev[ObjectId(last.list_id)], last.body.item_id) # 0
    /\ last.body.checked_state
    /\ store = prev
    /\ Len(Shown(store, last.list_id).items) = 2

\* C6: list_todo_lists() yields exactly one ListSummary per stored list, and
\* its item_count and checked_count are the number of items and of checked
\* items that get_todo_list returns for the same id.
C6_SummariesMatchLists ==
    LET sums == get_all_lists(store).resp.body.value
    IN  /\ Len(sums) = Cardinality(DOMAIN store)
        /\ \A n \in DOMAIN store :
              \E k \in 1 .. Len(sums) :
                 /\ sums[k].id = Hex(n)
                 /\ \A j \in 1 .. Len(sums) : sums[j].id = Hex(n) => j = k
                 /\ sums[k].name = Shown(store, Hex(n)).name
                 /\ sums[k].item_count = Len(Shown(store, Hex(n)).items)
                 /\ sums[k].checked_count =
                       Cardinality({i \in 1 .. Len(Shown(store, Hex(n)).items) :
                                       Shown(store, Hex(n)).items[i].checked_state})
        /\ last.op = "get_all_lists"
              => last.resp = [status |-> HTTP_200_OK,
                              body |-> [kind |-> "summaries", value |-> sums]]

\* C6 witness: the summaries were served with two lists stored, one empty
\* and one holding a checked item.
C6_Witness ==
    /\ last.op = "get_all_lists"
    /\ Cardinality(DOMAIN store) = 2
    /\ \E k \in 1 .. 2 : last.resp.body.value[k].checked_count = 1
    /\ \E k \in 1 .. 2 : last.resp.body.value[k].item_count = 0

\* C7: a create-list request whose name is missing or empty is rejected
\* with 422 before the data-access layer is called, and stores nothing.
C7_EmptyNameRejected ==
    (/\ last.op = "create_todo_list"
     /\ (~NewList(last.body) \/ last.body.name = ""))
    => /\ last.resp.status = HTTP_422_UNPROCESSABLE
       /\ ~Reached
       /\ store = prev

\* C8: get list, add item and set checked state on a list id with no
\* stored document answer 404 and leave the store unchanged.
C8_NotFoundIs404 ==
    (/\ last.op \in {"get_list", "create_item", "set_checked_state"}
     /\ Reached
     /\ FindOne(prev, last.list_id) = InvalidId)
    => (last.resp.status = 404 /\ store = prev)

\* the last request, served again on collection st for list id
Replay(st, id) ==
    CASE last.op = "get_list" -> get_list(st, id)
      [] last.op = "delete_list" -> delete_list(st, id)
      [] last.op = "create_item" -> create_item(st, nextId, id, last.body)
      [] last.op = "set_checked_state" -> set_checked_state(st, id, last.body)

\* C9: a malformed list id gets the outcome of a well-formed id that matches
\* no document: get, add item and set checked state signal not-found,
\* delete answers false, none is a validation or server error, and the
\* store is unchanged.
C9_MalformedIdIsNotFound ==
    (/\ last.op \in {"get_list", "delete_list", "create_item", "set_checked_state"}
     /\ Reached
     /\ last.list_id = Malformed)
    => /\ store = prev
       /\ last.resp = Replay(prev, Unassigned).resp
       /\ last.resp.status
             \notin {HTTP_422_UNPROCESSABLE, HTTP_500_SERVER_ERROR}
       /\ IF last.op = "delete_list"
          THEN last.resp = False200
          ELSE last.dal = NotFound

\* C10: app.todo_dal is installed, and a request served, only after the one
\* ping has returned ok = 1; a ping that is not ok fails startup, leaves the
\* handle unset and nothing served, and is not retried; the client is
\* closed only once the serving phase has ended.
C10_DalOnlyAfterPingOk ==
    /\ todo_dal = "installed" => (pong = [ok |-> 10] /\ pings = 1)
    /\ phase = "serving" => todo_dal = "installed"
    /\ last.op # "none" => todo_dal = "installed"
    /\ (pong # NoPong /\ pong # [ok |-> 10])
          => (phase = "failed" /\ todo_dal = "unset" /\ last.op = "none")
    /\ phase = "failed" => (todo_dal = "unset" /\ last.op = "none")
    /\ pings <= 1
    /\ client = "closed" <=> phase = "stopped"

\* C10 witness: a request was served and the client then closed.
C10_Witness ==
    /\ phase = "stopped"
    /\ client = "closed"
    /\ last.op = "set_checked_state"
    /\ Reached


(***************************************************************************)
(* The concurrent specification: requests to add an item to, and to set    *)
(* the checked state of an item of, one existing list are in flight        *)
(* together.  A handler holds nothing but its arguments until its one      *)
(* awaited call of the data-access layer, which the store applies as one   *)
(* operation: the requests take effect in any order.                       *)
(***************************************************************************)
\* the list every concurrent request addresses
TheList == Hex(1)

\* the service after POST /api/lists and one POST .../items
Created == create_todo_list(EmptyStore, 1, [name |-> "Groceries"])
Filled == create_item(Created.store, 2, TheList, [label |-> "Milk"])

ConcInit ==
    /\ phase = "serving"
    /\ client = "open"
    /\ todo_dal = "installed"
    /\ pings = 1
    /\ pong = [ok |-> 10]
    /\ store = Filled.store
    /\ nextId = 3
    /\ last = [op |-> "create_item", list_id |-> TheList,
               body |-> [label |-> "Milk"], dal |-> Filled.dal,
               resp |-> Filled.resp]
    /\ prev = Created.store
    /\ deleted = {}
    /\ inflight = <<>>
    /\ applied = <<>>

Awaiting(op, body) ==
    [op |-> op, list_id |-> TheList, body |-> body, pc |-> "awaiting",
     resp |-> [status |-> 0, body |-> [kind |-> "none"]]]

\* a client sends POST /api/lists/{list_id}/items
IssueCreateItem ==
    /\ phase = "serving"
    /\ Len(inflight) < MaxReq
    /\ \E l \in Labels :
          inflight' = Append(inflight, Awaiting("create_item", [label |-> l]))
    /\ UNCHANGED <<store, nextId, last, prev, deleted, applied>>
    /\ UNCHANGED lifeVars

\* a client sends PATCH /api/lists/{list_id}/checked_state for an item the
\* list holds
IssueSetCheckedState ==
    /\ phase = "serving"
    /\ Len(inflight) < MaxReq
    /\ \E i \in 1 .. Len(Shown(store, TheList).items), c \in BOOLEAN :
          inflight' = Append(inflight,
              Awaiting("set_checked_state",
                       [item_id |-> Shown(store, TheList).items[i].id,
                        checked_state |-> c]))
    /\ UNCHANGED <<store, nextId, last, prev, deleted, applied>>
    /\ UNCHANGED lifeVars

\* the handler of request k, run on collection st
Handle(st, fresh, req) ==
    IF req.op = "create_item"
    THEN create_item(st, fresh, req.list_id, req.body)
    ELSE set_checked_state(st, req.list_id, req.body)

\* the awaited call of request k is applied by the store and answered
Await ==
    \E k \in 1 .. Len(inflight) :
        LET req == inflight[k]
            r == Handle(store, nextId, req)
        IN  /\ req.pc = "awaiting"
            /\ Answer(req.op, req.list_id, req.body, r)
            /\ inflight' = [inflight EXCEPT ![k].pc = "done", ![k].resp = r.resp]
            /\ applied' = Append(applied, k)
            /\ nextId' = IF r.store # store THEN nextId + 1 ELSE nextId
            /\ UNCHANGED deleted

ConcNext ==
    \/ IssueCreateItem
    \/ IssueSetCheckedState
    \/ Await

ConcSpec == ConcInit /\ [][ConcNext]_vars

(***************************************************************************)
(* Properties of the concurrent specification ConcSpec.                    *)
(***************************************************************************)
IsCreate(k) == inflight[k].op = "create_item"
IsSet(k) == inflight[k].op = "set_checked_state"

\* the create_item requests applied so far, in the order of application
AppliedCreates == SelectSeq(applied, IsCreate)

\* the items the list held before any concurrent request
InitialCount == Len(Shown(Filled.store, TheList).items)

\* the positions in applied of the set_checked_state requests on item id
SetsOn(id) ==
    {j \in 1 .. Len(applied) :
        IsSet(applied[j]) /\ inflight[applied[j]].body.item_id = id}

\* the state the last set_checked_state applied to item id asked for;
\* false, the state of a new item, when none was applied
LastSetOn(id) ==
    IF SetsOn(id) = {} THEN FALSE
    ELSE LET j == CHOOSE m \in SetsOn(id) : \A n \in SetsOn(id) : n <= m
         IN  inflight[applied[j]].body.checked_state

AllDone == \A k \in 1 .. Len(inflight) : inflight[k].pc = "done"

\* the response of request k shows the update of request k
ShowsOwnUpdate(k) ==
    LET req == inflight[k]
    IN  IF IsCreate(k)
        THEN /\ req.resp.status = HTTP_201_CREATED
             /\ req.resp.body.kind = "ToDoList"
             /\ LastItemIs(req.resp.body, req.body.label)
        ELSE /\ req.resp.status = HTTP_200_OK
             /\ req.resp.body.kind = "ToDoList"
             /\ \E i \in 1 .. Len(req.resp.body.items) :
                   /\ req.resp.body.items[i].id = req.body.item_id
                   /\ req.resp.body.items[i].checked_state = req.body.checked_state

\* C1: under any interleaving of create_item and set_checked_state requests
\* on one existing list no update is lost: the list holds one item for each
\* request applied, with that request's label; every item carries the state
\* of the last set_checked_state applied to it; every response shows the
\* update of its own request; and once all requests are done, there is one
\* item for every create_item request issued.
C1_NoLostUpdate ==
    LET items == Shown(store, TheList).items
    IN  /\ Len(items) = InitialCount + Len(AppliedCreates)
        /\ \A j \in 1 .. Len(AppliedCreates) :
              items[InitialCount + j].label = inflight[AppliedCreates[j]].body.label
        /\ \A i \in 1 .. Len(items) :
              items[i].checked_state = LastSetOn(items[i].id)
        /\ \A i, j \in 1 .. Len(items) : items[i].id = items[j].id => i = j
        /\ \A k \in 1 .. Len(inflight) :
              inflight[k].pc = "done" => ShowsOwnUpdate(k)
        /\ AllDone =>
              Len(items) = InitialCount
                  + Cardinality({k \in 1 .. Len(inflight) : IsCreate(k)})

\* C1 witness: three requests are done: two set_checked_state on the same
\* item, applied in the reverse of the order they were sent in and asking
\* for opposite states, and a create_item applied between them.
C1_Witness ==
    /\ Len(inflight) = 3
    /\ AllDone
    /\ IsSet(1) /\ IsSet(2) /\ IsCreate(3)
    /\ inflight[1].body.item_id = inflight[2].body.item_id
    /\ inflight[1].body.checked_state # inflight[2].body.checked_state
    /\ applied = <<2, 3, 1>>

=============================================================================
